---------------------------- MODULE Spec2Model ----------------------------
(***************************************************************************)
(* Sliding-window gesture inference of scripts/inference.py:               *)
(* generate_gestures (window schedule, seed context, predictor calls,      *)
(* overlap blend, aggregation) and the part of main that drives it.        *)
(*                                                                         *)
(* Times are Python floats (IEEE-754 binary64, round to nearest, ties to   *)
(* even); they are modelled bit-exactly on arbitrary-precision naturals.   *)
(* Pose frames are one representative channel held as an exact rational.   *)
(***************************************************************************)
EXTENDS Integers, Sequences, FiniteSets, TLC

(***************************************************************************)
(* Arbitrary-precision naturals: little-endian sequences of limbs, no      *)
(* leading zero limb; <<>> is zero.                                        *)
(***************************************************************************)
\* the number of bits of n, 0 <= n < 2^30
IntBitLen(n) == Cardinality({k \in 0..29 : 2 ^ k <= n})

LimbBase == 2 ^ 15
LimbBits == IntBitLen(LimbBase) - 1

Max(a, b) == IF a >= b THEN a ELSE b
Min(a, b) == IF a <= b THEN a ELSE b

RECURSIVE BigNorm(_)
BigNorm(a) ==
    IF a = <<>> THEN a
    ELSE IF a[Len(a)] = 0 THEN BigNorm(SubSeq(a, 1, Len(a) - 1)) ELSE a

RECURSIVE BigFromInt(_)
BigFromInt(n) ==
    IF n = 0 THEN <<>> ELSE <<n % LimbBase>> \o BigFromInt(n \div LimbBase)

RECURSIVE BigToInt(_)
BigToInt(a) ==
    IF a = <<>> THEN 0 ELSE a[1] + LimbBase * BigToInt(Tail(a))

Limb(a, k) == IF k <= Len(a) THEN a[k] ELSE 0

RECURSIVE BigAddC(_, _, _, _)
BigAddC(a, b, k, c) ==
    IF k > Len(a) /\ k > Len(b)
    THEN (IF c = 0 THEN <<>> ELSE <<c>>)
    ELSE LET x == Limb(a, k) + Limb(b, k) + c
         IN  <<x % LimbBase>> \o BigAddC(a, b, k + 1, x \div LimbBase)

BigAdd(a, b) == BigAddC(a, b, 1, 0)

\* a - b for a >= b
RECURSIVE BigSubC(_, _, _, _)
BigSubC(a, b, k, c) ==
    IF k > Len(a) THEN <<>>
    ELSE LET x == Limb(a, k) - Limb(b, k) - c
         IN  IF x < 0 THEN <<x + LimbBase>> \o BigSubC(a, b, k + 1, 1)
             ELSE <<x>> \o BigSubC(a, b, k + 1, 0)

BigSub(a, b) == BigNorm(BigSubC(a, b, 1, 0))

RECURSIVE BigCmpAt(_, _, _)
BigCmpAt(a, b, k) ==
    IF k = 0 THEN 0
    ELSE IF a[k] > b[k] THEN 1
    ELSE IF a[k] < b[k] THEN -1
    ELSE BigCmpAt(a, b, k - 1)

\* -1, 0, 1 as a < b, a = b, a > b
BigCmp(a, b) ==
    IF Len(a) > Len(b) THEN 1
    ELSE IF Len(a) < Len(b) THEN -1
    ELSE BigCmpAt(a, b, Len(a))

\* a * c for 0 <= c <= LimbBase
RECURSIVE BigMulC(_, _, _, _)
BigMulC(a, c, k, carry) ==
    IF k > Len(a) THEN BigFromInt(carry)
    ELSE LET x == a[k] * c + carry
         IN  <<x % LimbBase>> \o BigMulC(a, c, k + 1, x \div LimbBase)

BigMulSmall(a, c) == IF c = 0 THEN <<>> ELSE BigMulC(a, c, 1, 0)

Zeros(n) == [k \in 1..n |-> 0]

\* a * 2^s
BigShl(a, s) ==
    IF a = <<>> THEN a
    ELSE Zeros(s \div LimbBits) \o BigMulSmall(a, 2 ^ (s % LimbBits))

\* floor(a / 2^s)
BigShr(a, s) ==
    LET w == s \div LimbBits
        r == s % LimbBits
        d == IF w >= Len(a) THEN <<>> ELSE SubSeq(a, w + 1, Len(a))
    IN  BigNorm([k \in 1..Len(d) |->
                   (d[k] \div (2 ^ r))
                   + (Limb(d, k + 1) % (2 ^ r)) * (2 ^ (LimbBits - r))])

BigBitLen(a) ==
    IF a = <<>> THEN 0 ELSE LimbBits * (Len(a) - 1) + IntBitLen(a[Len(a)])

BigOdd(a) == a # <<>> /\ a[1] % 2 = 1

\* long division by b, one limb of the dividend per step and each quotient
\* limb found as three digits of DigitBits bits
DigitBits == LimbBits \div 3
DigitBase == 2 ^ DigitBits

\* the digit d with b * d * scale <= r < b * (d + 1) * scale
BigDigit(r, b, scale) ==
    LET Le(d) == BigCmp(BigMulSmall(b, d * scale), r) <= 0
    IN  CHOOSE d \in 0..(DigitBase - 1) : Le(d) /\ ~Le(d + 1)

\* floor(r / b) and r mod b for r < b * scale * DigitBase, digit by digit:
\* <<q + quotient, remainder>>
RECURSIVE BigDivDigits(_, _, _, _)
BigDivDigits(r, b, scale, q) ==
    LET d  == BigDigit(r, b, scale)
        r1 == BigSub(r, BigMulSmall(b, d * scale))
    IN  IF scale = 1 THEN <<q + d, r1>>
        ELSE BigDivDigits(r1, b, scale \div DigitBase, q + d * scale)

\* takes the limb x into the running remainder r < b:
\* <<quotient limb, remainder>>
BigDivLimb(r, x, b) ==
    BigDivDigits(BigNorm(<<x>> \o r), b, LimbBase \div DigitBase, 0)

\* limbs k..1 of a, most significant first: <<quotient limbs, remainder>>
RECURSIVE BigDivLimbs(_, _, _, _)
BigDivLimbs(a, b, k, r) ==
    IF k = 0 THEN <<(<<>>), r>>
    ELSE LET step == BigDivLimb(r, a[k], b)
             rest == BigDivLimbs(a, b, k - 1, step[2])
         IN  \* the remainder of a step is below b before the next limb is taken
             IF BigCmp(step[2], b) < 0
             THEN <<Append(rest[1], step[1]), rest[2]>>
             ELSE <<(<<>>), step[2]>>

\* <<floor(a / b), a mod b>>, b # 0.  The leading Len(b) - 1 limbs of a are
\* below b and start the remainder.
BigDivMod(a, b) ==
    IF Len(a) < Len(b) THEN <<(<<>>), a>>
    ELSE LET k  == Len(a) - Len(b) + 1
             qr == BigDivLimbs(a, b, k, SubSeq(a, k + 1, Len(a)))
         IN  <<BigNorm(qr[1]), qr[2]>>

(***************************************************************************)
(* Python float: sign s in {-1, 0, 1}, mantissa m of exactly MantBits bits *)
(* (a natural as above), exponent e; the value is s * m * 2^e.  Zero is    *)
(* s = 0 (the sign of a zero is never observed by the program: it only     *)
(* compares, divides by non-zero values and takes math.ceil).  The values  *)
(* of a run stay far inside the normal range.                              *)
(***************************************************************************)
MantBits == 53

FZero == [s |-> 0, m |-> <<>>, e |-> 0]

\* s * n * 2^e rounded to nearest, ties to even.  The quotient q of n by 2^d
\* is rounded up by what is left of n, and renormalised when that carries.
\* (CHOOSE v \in {F(w) : w \in {x}} : TRUE is F(x) with x taken once.)
FRound(s, n, e) ==
    IF s = 0 \/ n = <<>> THEN FZero
    ELSE LET len == BigBitLen(n)
             d   == len - MantBits
             Up(q) ==
                 LET c == BigCmp(BigSub(n, BigShl(q, d)), BigShl(<<1>>, d - 1))
                 IN  IF c > 0 \/ (c = 0 /\ BigOdd(q)) THEN BigAdd(q, <<1>>) ELSE q
             Pack(q1) ==
                 IF BigBitLen(q1) > MantBits
                 THEN [s |-> s, m |-> BigShr(q1, 1), e |-> e + d + 1]
                 ELSE [s |-> s, m |-> q1, e |-> e + d]
         IN  IF len <= MantBits
             THEN [s |-> s, m |-> BigShl(n, MantBits - len), e |-> e - (MantBits - len)]
             ELSE CHOOSE f \in {Pack(q1) : q1 \in {Up(q) : q \in {BigShr(n, d)}}} : TRUE

\* s * (a / b) * 2^e correctly rounded; a, b naturals, b # 0.  The quotient is
\* taken to MantBits + 3 bits or more and the remainder kept as a sticky bit.
FQuot(s, a, b, e) ==
    IF s = 0 \/ a = <<>> THEN FZero
    ELSE LET Sticky(qr) ==
                 BigAdd(BigMulSmall(qr[1], 2), IF qr[2] = <<>> THEN <<>> ELSE <<1>>)
             Quot(k) ==
                 CHOOSE f \in {FRound(s, n, e - k - 1) :
                                  n \in {Sticky(qr) :
                                     qr \in {BigDivMod(x, b) : x \in {BigShl(a, k)}}}} : TRUE
         IN  CHOOSE f \in {Quot(k) :
                 k \in {Max(0, BigBitLen(b) + MantBits + 3 - BigBitLen(a))}} : TRUE

Sign(x) == IF x > 0 THEN 1 ELSE IF x < 0 THEN -1 ELSE 0
Abs(x) == IF x < 0 THEN -x ELSE x

\* int / int (true division), also float("<a/b as a decimal string>")
FromRat(a, b) == FQuot(Sign(a) * Sign(b), BigFromInt(Abs(a)), BigFromInt(Abs(b)), 0)

\* x / y, y # 0
FDiv(x, y) == FQuot(x.s * y.s, x.m, y.m, x.e - y.e)

FNeg(x) == [x EXCEPT !.s = -x.s]

\* x + y
FAdd(x, y) ==
    IF x.s = 0 THEN y
    ELSE IF y.s = 0 THEN x
    ELSE LET e0 == Min(x.e, y.e)
             a  == BigShl(x.m, x.e - e0)
             b  == BigShl(y.m, y.e - e0)
             c  == BigCmp(a, b)
         IN  IF x.s # y.s /\ c = 0 THEN FZero
             ELSE FRound(IF x.s = y.s \/ c > 0 THEN x.s ELSE y.s,
                         IF x.s = y.s THEN BigAdd(a, b)
                         ELSE IF c > 0 THEN BigSub(a, b) ELSE BigSub(b, a),
                         e0)

FSub(x, y) == FAdd(x, FNeg(y))

\* i * x for an int i, 0 <= i <= LimbBase
FMulInt(i, x) == FRound(Sign(i) * x.s, BigMulSmall(x.m, i), x.e)

\* -1, 0, 1 as x < y, x = y, x > y
FCmp(x, y) ==
    IF x.s # y.s THEN Sign(x.s - y.s)
    ELSE IF x.s = 0 THEN 0
    ELSE LET e0 == Min(x.e, y.e)
         IN  x.s * BigCmp(BigShl(x.m, x.e - e0), BigShl(y.m, y.e - e0))

FLt(x, y) == FCmp(x, y) < 0

\* math.ceil(x), an int
FCeil(x) ==
    IF x.s = 0 THEN 0
    ELSE IF x.e >= 0 THEN x.s * BigToInt(BigShl(x.m, x.e))
    ELSE LET q    == BigShr(x.m, -x.e)
             frac == BigShl(q, -x.e) # x.m
         IN  IF x.s > 0 THEN BigToInt(q) + (IF frac THEN 1 ELSE 0)
             ELSE -BigToInt(q)


(***************************************************************************)
(* Pose values: exact rationals <<numerator, denominator>> in lowest       *)
(* terms, denominator > 0.  One channel of a frame stands for the frame:   *)
(* every operation of generate_gestures on frames is elementwise.          *)
(***************************************************************************)
RECURSIVE GCD(_, _)
GCD(a, b) == IF b = 0 THEN a ELSE GCD(b, a % b)

RNorm(n, d) ==
    IF n = 0 THEN <<0, 1>>
    ELSE LET g == GCD(Abs(n), d) IN <<Sign(n) * (Abs(n) \div g), d \div g>>

RAdd(x, y) ==
    LET g == GCD(x[2], y[2])
    IN  RNorm(x[1] * (y[2] \div g) + y[1] * (x[2] \div g), (x[2] \div g) * y[2])

RMul(x, y) == RNorm(x[1] * y[1], x[2] * y[2])
RMulInt(x, k) == RNorm(x[1] * k, x[2])
RDivInt(x, k) == RNorm(x[1], x[2] * k)
RMax(x, y) == IF x[1] * y[2] >= y[1] * x[2] THEN x ELSE y

(***************************************************************************)
(* Python sequence operations used on the pose arrays.                     *)
(***************************************************************************)
\* x[-n:] for n >= 0 (x[-0:] is x[0:], the whole sequence)
PyLast(x, n) ==
    IF n = 0 \/ n >= Len(x) THEN x ELSE SubSeq(x, Len(x) - n + 1, Len(x))

\* x[:-n] for n >= 0 (x[:-0] is x[:0], the empty sequence)
PyDropLast(x, n) ==
    IF n = 0 \/ n >= Len(x) THEN <<>> ELSE SubSeq(x, 1, Len(x) - n)

\* x[0:n]
PyFirst(x, n) == SubSeq(x, 1, Min(n, Len(x)))

\* t[0, :, :] = rows, where t[0] holds n rows: the rows must be n, or one row
\* that is broadcast; anything else is torch's size-mismatch RuntimeError.
CanAssignRows(n, rows) == Len(rows) = n \/ Len(rows) = 1
AssignRows(n, rows) == IF Len(rows) = n THEN rows ELSE [k \in 1..n |-> rows[1]]

\* np.vstack(list): the arrays of the list one after the other
RECURSIVE Vstack(_)
Vstack(list) ==
    IF list = <<>> THEN <<>>
    ELSE IF Len(list) = 1 THEN list[1]
    ELSE LET half == Len(list) \div 2
         IN  Vstack(SubSeq(list, 1, half)) \o Vstack(SubSeq(list, half + 1, Len(list)))

(***************************************************************************)
(* Collaborators that live outside scripts/inference.py.                   *)
(***************************************************************************)
\* the vocabulary (lang_model): reserved indices and the known words
SOS_token == 1
EOS_token == 2
UNK_token == 3
word2index == [w \in {"hello", "world"} |-> IF w = "hello" THEN 4 ELSE 5]

get_word_index(word) ==
    IF word \in DOMAIN word2index THEN word2index[word] ELSE UNK_token

\* DataPreprocessor.get_words_in_time_range: the words, in order, whose span
\* meets [start_time, end_time)
get_words_in_time_range(word_list, t0, t1) ==
    SelectSeq(word_list, LAMBDA w : FLt(w[2], t1) /\ FLt(t0, w[3]))

RECURSIVE SeqSum(_)
SeqSum(x) == IF x = <<>> THEN 0 ELSE Head(x) + SeqSum(Tail(x))

\* pose_decoder: the trained network, a black box.  It stands here as one
\* deterministic function of its inputs that returns n_poses frames.
PoseMod == 11

pose_decoder(in_text, words_lengths, pre_seq, n_poses) ==
    LET h == SeqSum(in_text) + words_lengths
             + SeqSum([k \in 1..Len(pre_seq) |-> k * (pre_seq[k][1] + 2 * pre_seq[k][2])])
    IN  [j \in 1..n_poses |-> <<(h + j * j) % PoseMod, 1>>]

(***************************************************************************)
(* Bounds of the model and the inputs it draws from.                       *)
(***************************************************************************)
MaxPoses == 3
MaxPrePoses == 3
MaxFramerate == 3
MaxWords == 3
MaxWordLen == 2
SeedLen == 2
LongClipSeconds == 61

\* transcript times are decimal strings with one fractional digit
TicksPerSecond == 2 * 5

WordTexts == <<"hello", "zebra", "world", "hello", "zebra", "world">>

\* a transcript of nw back-to-back words, each d half-seconds long
Transcript(nw, d) ==
    [k \in 1..nw |-> [word |-> WordTexts[k],
                      start_time |-> (k - 1) * d * 5,
                      end_time |-> k * d * 5]]

\* a transcript with a token that normalises to nothing, which leaves a pause
PauseTranscript ==
    << [word |-> "hello", start_time |-> 0,  end_time |-> 5],
       [word |-> "",      start_time |-> 5,  end_time |-> 15],
       [word |-> "world", start_time |-> 15, end_time |-> 20] >>

LongTranscript ==
    << [word |-> "hello", start_time |-> 0,
        end_time |-> LongClipSeconds * TicksPerSecond] >>

\* the end-to-end scenario: three words over 0..6 s, 30 poses, 10 pre poses, 15 fps
ScenarioTranscript ==
    [k \in 1..3 |-> [word |-> WordTexts[k],
                     start_time |-> (k - 1) * 2 * TicksPerSecond,
                     end_time |-> k * 2 * TicksPerSecond]]

ScenarioArgs == [n_poses |-> 30, n_pre_poses |-> 10, motion_resampling_framerate |-> 15]
LongArgs == [n_poses |-> 2, n_pre_poses |-> 1, motion_resampling_framerate |-> 1]

NoSeed == [is_none |-> TRUE, frames |-> <<>>]
GivenSeed == [is_none |-> FALSE, frames |-> [k \in 1..SeedLen |-> <<k + 6, 1>>]]

\* args.data_mean, args.data_std (one channel)
data_mean == <<1, 1>>
data_std == <<1, 2>>


(***************************************************************************)
(* State: the inputs of a run, the locals of generate_gestures and main,   *)
(* and the record of what the run did.                                     *)
(***************************************************************************)
VARIABLES
    args,             \* n_poses, n_pre_poses, motion_resampling_framerate
    transcript,       \* SubtitleWrapper(transcript_path).get(), times in ticks
    seed_seq,         \* the seed_seq argument (None from main)
    shares_memory,    \* device is the CPU: out_seq is a view of out_poses
    pc,               \* the statement the program is at
    error,            \* the exception that ended the run, "" if none
    words,            \* word_list / words
    out_list,
    clip_length,
    pre_seq,
    unit_time,
    stride_time,
    num_subdivision,
    i,
    start_time,
    end_time,
    word_seq,
    in_text,
    words_lengths,
    out_poses,        \* the tensor, then the returned array
    out_seq,
    invocations,      \* history: one record per predictor call
    emitted,          \* history: out_seq of each window as appended to out_list
    uncapped,         \* history: num_subdivision as printed at line 45
    file_written,     \* the BVH file exists
    run,              \* which call of generate_gestures this is
    first_out         \* what the first call returned

vars == <<args, transcript, seed_seq, shares_memory, pc, error, words, out_list,
          clip_length, pre_seq, unit_time, stride_time, num_subdivision, i,
          start_time, end_time, word_seq, in_text, words_lengths, out_poses,
          out_seq, invocations, emitted, uncapped, file_written, run, first_out>>

inputs == <<args, transcript, seed_seq, shares_memory>>
mainState == <<file_written, run, first_out>>
schedule == <<unit_time, stride_time, num_subdivision, uncapped>>
window == <<start_time, end_time, word_seq, in_text>>

SmallArgs ==
    [n_poses : 1..MaxPoses, n_pre_poses : 0..MaxPrePoses,
     motion_resampling_framerate : 1..MaxFramerate]

SmallTranscripts ==
    {Transcript(nw, d) : nw \in 0..MaxWords, d \in 1..MaxWordLen} \cup {PauseTranscript}

Init ==
    /\ \/ /\ args \in SmallArgs
          /\ transcript \in SmallTranscripts
          /\ seed_seq \in {NoSeed, GivenSeed}
       \/ /\ args = LongArgs
          /\ transcript = LongTranscript
          /\ seed_seq = NoSeed
       \/ /\ args = ScenarioArgs
          /\ transcript = ScenarioTranscript
          /\ seed_seq = NoSeed
    /\ shares_memory \in BOOLEAN
    /\ pc = "main_input"
    /\ error = ""
    /\ words = <<>>
    /\ out_list = <<>>
    /\ clip_length = FZero
    /\ pre_seq = <<>>
    /\ unit_time = FZero
    /\ stride_time = FZero
    /\ num_subdivision = 0
    /\ i = 0
    /\ start_time = FZero
    /\ end_time = FZero
    /\ word_seq = <<>>
    /\ in_text = <<>>
    /\ words_lengths = 0
    /\ out_poses = <<>>
    /\ out_seq = <<>>
    /\ invocations = <<>>
    /\ emitted = <<>>
    /\ uncapped = 0
    /\ file_written = FALSE
    /\ run = 1
    /\ first_out = <<>>

\* an exception propagates: nothing in generate_gestures or main catches
Raise(e) == pc' = "raised" /\ error' = e

(***************************************************************************)
(* main, lines 137-148: parse the transcript into word_list.               *)
(***************************************************************************)
ParseWord(t) ==
    <<t.word, FromRat(t.start_time, TicksPerSecond), FromRat(t.end_time, TicksPerSecond)>>

WordList(tr) ==
    LET kept == SelectSeq(tr, LAMBDA t : Len(t.word) > 0)
    IN  [k \in 1..Len(kept) |-> ParseWord(kept[k])]

MainPrepareInput ==
    /\ pc = "main_input"
    /\ words' = WordList(transcript)
    /\ pc' = "gg_enter"
    /\ UNCHANGED <<inputs, mainState, schedule, window, error, out_list, clip_length,
                   pre_seq, i, words_lengths, out_poses, out_seq, invocations, emitted>>

(***************************************************************************)
(* generate_gestures, lines 24-34: out_list, clip_length, the first seed.  *)
(***************************************************************************)
\* faulty variant: out_list outlives the call (as a mutable default would)
InitOutListStale == out_list

InitOutList == <<>>

MeanSeed(n) == [k \in 1..n |-> data_mean]

Enter ==
    /\ pc = "gg_enter"
    /\ invocations' = <<>>
    /\ emitted' = <<>>
    /\ out_list' = InitOutList
    /\ IF words = <<>>
       THEN /\ Raise("IndexError")
            /\ UNCHANGED <<clip_length, pre_seq>>
       ELSE /\ clip_length' = words[Len(words)][3]
            /\ IF seed_seq.is_none
               THEN /\ pre_seq' = MeanSeed(args.n_pre_poses)
                    /\ pc' = "gg_schedule"
                    /\ UNCHANGED error
               ELSE LET rows == PyFirst(seed_seq.frames, args.n_pre_poses)
                    IN  IF CanAssignRows(args.n_pre_poses, rows)
                        THEN /\ pre_seq' = AssignRows(args.n_pre_poses, rows)
                             /\ pc' = "gg_schedule"
                             /\ UNCHANGED error
                        ELSE /\ Raise("RuntimeError")
                             /\ UNCHANGED pre_seq
    /\ UNCHANGED <<inputs, mainState, schedule, window, words, i, words_lengths,
                   out_poses, out_seq>>


(***************************************************************************)
(* Lines 36-48: unit_time, stride_time, num_subdivision and its cap.       *)
(***************************************************************************)
verbose == 1
MaxSubdivision == 59

\* faulty variant: no cap on the number of windows
CapOff(n) == n

Cap(n) == Min(n, MaxSubdivision)

UnitTime(a) == FromRat(a.n_poses, a.motion_resampling_framerate)
StrideTime(a) == FromRat(a.n_poses - a.n_pre_poses, a.motion_resampling_framerate)

\* lines 39-42, for a stride_time that is not zero
\* (each intermediate float is a value of its own: d, then q, then the count)
NumSubdivision(clip, unit, stride) ==
    IF FLt(clip, unit) THEN 1
    ELSE CHOOSE n \in {FCeil(q) + 1 : q \in {FDiv(d, stride) : d \in {FSub(clip, unit)}}} : TRUE

Schedule ==
    /\ pc = "gg_schedule"
    /\ unit_time' = UnitTime(args)
    /\ stride_time' = StrideTime(args)
    /\ IF ~FLt(clip_length, unit_time') /\ stride_time'.s = 0
       THEN /\ Raise("ZeroDivisionError")
            /\ UNCHANGED <<num_subdivision, uncapped, i, out_poses>>
       ELSE /\ uncapped' = NumSubdivision(clip_length, unit_time', stride_time')
            /\ num_subdivision' = Cap(uncapped')
            /\ out_poses' = <<>>
            /\ i' = 0
            /\ pc' = "gg_text"
            /\ UNCHANGED error
    /\ UNCHANGED <<inputs, mainState, window, words, out_list, clip_length, pre_seq,
                   words_lengths, out_seq, invocations, emitted>>

(***************************************************************************)
(* Lines 50-65: the loop test, the window and its encoded words.           *)
(***************************************************************************)
\* faulty variant: the words are written from position 0
WordSlotOffByOne(w_i) == w_i

\* the position word w_i (counted from 0) is written to, line 62
WordSlot(w_i) == w_i + 1

RECURSIVE FillWords(_, _, _)
FillWords(word_indices, ws, w_i) ==
    IF w_i >= Len(ws) THEN word_indices
    ELSE FillWords([word_indices EXCEPT ![WordSlot(w_i) + 1] = get_word_index(ws[w_i + 1][1])],
                   ws, w_i + 1)

\* lines 56-62; Python index k is element k + 1 here, index -1 the last one
WordIndices(ws) ==
    LET zeros == [k \in 1..(Len(ws) + 2) |-> 0]
        sos   == [zeros EXCEPT ![1] = SOS_token]
        eos   == [sos EXCEPT ![Len(sos)] = EOS_token]
    IN  FillWords(eos, ws, 0)

PrepareText ==
    /\ pc = "gg_text"
    /\ IF i < num_subdivision
       THEN /\ start_time' = FMulInt(i, stride_time)
            /\ end_time' = FAdd(start_time', unit_time)
            /\ word_seq' = get_words_in_time_range(words, start_time', end_time')
            /\ in_text' = WordIndices(word_seq')
            /\ pc' = "gg_preseq"
       ELSE /\ pc' = "gg_aggregate"
            /\ UNCHANGED window
    /\ UNCHANGED <<inputs, mainState, schedule, error, words, out_list, clip_length,
                   pre_seq, i, words_lengths, out_poses, out_seq, invocations, emitted>>

(***************************************************************************)
(* Lines 67-70: the seed of windows after the first.                       *)
(***************************************************************************)
PreparePreSeq ==
    /\ pc = "gg_preseq"
    /\ IF i > 0
       THEN LET rows == PyLast(out_poses, args.n_pre_poses)
            IN  IF CanAssignRows(args.n_pre_poses, rows)
                THEN /\ pre_seq' = AssignRows(args.n_pre_poses, rows)
                     /\ pc' = "gg_infer"
                     /\ UNCHANGED error
                ELSE /\ Raise("RuntimeError")
                     /\ UNCHANGED pre_seq
       ELSE /\ pc' = "gg_infer"
            /\ UNCHANGED <<pre_seq, error>>
    /\ UNCHANGED <<inputs, mainState, schedule, window, words, out_list, clip_length,
                   i, words_lengths, out_poses, out_seq, invocations, emitted>>

(***************************************************************************)
(* Lines 72-75: the predictor call.  It returns n_poses frames or raises.  *)
(***************************************************************************)
Invocation(raw) ==
    [window |-> i, start_time |-> start_time, end_time |-> end_time,
     word_seq |-> word_seq, in_text |-> in_text, words_lengths |-> Len(in_text),
     pre_seq |-> pre_seq, raw |-> raw]

InferenceReturns ==
    /\ pc = "gg_infer"
    /\ words_lengths' = Len(in_text)
    /\ out_poses' = pose_decoder(in_text, words_lengths', pre_seq, args.n_poses)
    /\ out_seq' = out_poses'
    /\ invocations' = Append(invocations, Invocation(out_poses'))
    /\ pc' = "gg_smooth"
    /\ UNCHANGED <<inputs, mainState, schedule, window, error, words, out_list,
                   clip_length, pre_seq, i, emitted>>

\* faulty variant: the loop swallows the failure and breaks
AfterPredictorFailureSwallowed == "gg_aggregate"

\* where control goes when pose_decoder raises: out of the loop, of
\* generate_gestures and of main
AfterPredictorFailure == "raised"

InferenceRaises ==
    /\ pc = "gg_infer"
    /\ words_lengths' = Len(in_text)
    /\ invocations' = Append(invocations, Invocation(<<>>))
    /\ pc' = AfterPredictorFailure
    /\ error' = "PredictorError"
    /\ UNCHANGED <<inputs, mainState, schedule, window, words, out_list, clip_length,
                   pre_seq, i, out_poses, out_seq, emitted>>

(***************************************************************************)
(* Lines 77-88: cross-fade with the tail of the previous window, append.   *)
(***************************************************************************)
\* faulty variant: the two weights exchanged
BlendFrameSwapped(prev, next, j, n) ==
    RAdd(RDivInt(RMulInt(prev, j + 1), n + 1), RDivInt(RMulInt(next, n - j), n + 1))

\* line 86, j counted from 0, n = len(last_poses)
BlendFrame(prev, next, j, n) ==
    RAdd(RDivInt(RMulInt(prev, n - j), n + 1), RDivInt(RMulInt(next, j + 1), n + 1))

\* lines 82-86: out_seq after the loop over j
Blend(last_poses, seq) ==
    [k \in 1..Len(seq) |->
        IF k <= Len(last_poses)
        THEN BlendFrame(last_poses[k], seq[k], k - 1, Len(last_poses))
        ELSE seq[k]]

\* faulty variant: the tail of the previous window is kept
DeleteNothing(x, n) == x

\* line 80
DeleteLastPart(x, n) == PyDropLast(x, n)

Smooth ==
    /\ pc = "gg_smooth"
    /\ LET last_poses == PyLast(out_list[Len(out_list)], args.n_pre_poses)
           blended    == IF Len(out_list) > 0 THEN Blend(last_poses, out_seq) ELSE out_seq
           kept       == IF Len(out_list) > 0
                         THEN [out_list EXCEPT ![Len(out_list)] =
                                  DeleteLastPart(out_list[Len(out_list)], args.n_pre_poses)]
                         ELSE out_list
       IN  /\ out_seq' = blended
           /\ out_poses' = IF shares_memory THEN blended ELSE out_poses
           /\ out_list' = Append(kept, blended)
           /\ emitted' = Append(emitted, blended)
    /\ i' = i + 1
    /\ pc' = "gg_text"
    /\ UNCHANGED <<inputs, mainState, schedule, window, error, words, clip_length,
                   pre_seq, words_lengths, invocations>>

(***************************************************************************)
(* Lines 90-96: the timing print, np.vstack, return.                       *)
(***************************************************************************)
Aggregate ==
    /\ pc = "gg_aggregate"
    /\ IF verbose # 0 /\ num_subdivision = 0
       THEN /\ Raise("ZeroDivisionError")
            /\ UNCHANGED out_poses
       ELSE IF out_list = <<>>
       THEN /\ Raise("ValueError")
            /\ UNCHANGED out_poses
       ELSE /\ out_poses' = Vstack(out_list)
            /\ pc' = "returned"
            /\ UNCHANGED error
    /\ UNCHANGED <<inputs, mainState, schedule, window, words, out_list, clip_length,
                   pre_seq, i, words_lengths, out_seq, invocations, emitted>>

(***************************************************************************)
(* main, lines 153-164: unnormalize, make_mocap_data, make_bvh.            *)
(***************************************************************************)
StdFloor == <<1, 100>>
SavgolWindow == 15

Unnormalize(poses) ==
    [k \in 1..Len(poses) |-> RAdd(RMul(poses[k], RMax(data_std, StdFloor)), data_mean)]

MainUnnormalize ==
    /\ pc = "returned"
    /\ seed_seq.is_none
    /\ out_poses' = Unnormalize(out_poses)
    /\ pc' = "main_mocap"
    /\ UNCHANGED <<inputs, mainState, schedule, window, error, words, out_list,
                   clip_length, pre_seq, i, words_lengths, out_seq, invocations, emitted>>

\* savgol_filter(poses[:, i], 15, 2) needs at least 15 frames
MainMakeMocap ==
    /\ pc = "main_mocap"
    /\ IF Len(out_poses) < SavgolWindow
       THEN Raise("ValueError")
       ELSE pc' = "main_bvh" /\ UNCHANGED error
    /\ UNCHANGED <<inputs, mainState, schedule, window, words, out_list, clip_length,
                   pre_seq, i, words_lengths, out_poses, out_seq, invocations, emitted>>

MainMakeBvh ==
    /\ pc = "main_bvh"
    /\ file_written' = TRUE
    /\ pc' = "done"
    /\ UNCHANGED <<inputs, run, first_out, schedule, window, error, words, out_list,
                   clip_length, pre_seq, i, words_lengths, out_poses, out_seq,
                   invocations, emitted>>

(***************************************************************************)
(* A second call of generate_gestures with the same arguments.             *)
(***************************************************************************)
CallAgain ==
    /\ pc = "returned"
    /\ run = 1
    /\ run' = 2
    /\ first_out' = out_poses
    /\ pc' = "gg_enter"
    /\ UNCHANGED <<inputs, file_written, schedule, window, error, words, out_list,
                   clip_length, pre_seq, i, words_lengths, out_poses, out_seq,
                   invocations, emitted>>

Next ==
    \/ MainPrepareInput
    \/ Enter
    \/ Schedule
    \/ PrepareText
    \/ PreparePreSeq
    \/ InferenceReturns
    \/ InferenceRaises
    \/ Smooth
    \/ Aggregate
    \/ MainUnnormalize
    \/ MainMakeMocap
    \/ MainMakeBvh

Spec == Init /\ [][Next]_vars

NextTwice == Next \/ CallAgain

SpecTwice == Init /\ [][NextTwice]_vars


(***************************************************************************)
(* Properties.                                                             *)
(***************************************************************************)
\* the last n elements of x, n <= Len(x)
LastN(x, n) == SubSeq(x, Len(x) - n + 1, Len(x))

\* ceil((clip_length - unit_time) / stride_time) + 1, or 1 for a clip shorter
\* than one window, in the float arithmetic of the program
CeilingFormula ==
    CHOOSE n \in
        { IF FCmp(clip_length, unit) < 0 THEN 1
          ELSE CHOOSE c \in {FCeil(q) + 1 : q \in {FDiv(d, stride) : d \in {FAdd(clip_length, FNeg(unit))}}} : TRUE
          : unit \in {FromRat(args.n_poses, args.motion_resampling_framerate)},
            stride \in {FromRat(args.n_poses - args.n_pre_poses, args.motion_resampling_framerate)} } : TRUE

\* C1 as stated: when generate_gestures returns, the number of predictor
\* invocations equals the ceiling formula, for every configuration and clip.
C1_LoopCountIsFormula ==
    pc = "returned" => Len(invocations) = CeilingFormula

\* C1, amended: when generate_gestures returns, the number of predictor
\* invocations equals the ceiling formula capped at 59.
C1_LoopCountIsCappedFormula ==
    pc = "returned" =>
        Len(invocations) = (IF CeilingFormula > 59 THEN 59 ELSE CeilingFormula)

C1_Witness ==
    /\ pc = "returned"
    /\ CeilingFormula > 59
    /\ Len(invocations) = 59

\* C2: with 1 <= n_pre_poses < n_poses, after k windows the sequence built so
\* far has n_poses + (k - 1) * (n_poses - n_pre_poses) frames; window w holds
\* positions (w - 1) * stride + 1 onwards with the frames it was appended with,
\* which are its raw frames outside the blended head; the returned sequence
\* is that sequence.
C2_LengthInvariant ==
    (1 <= args.n_pre_poses /\ args.n_pre_poses < args.n_poses /\ emitted # <<>>) =>
        LET k      == Len(emitted)
            stride == args.n_poses - args.n_pre_poses
            total  == Vstack(out_list)
        IN  /\ Len(total) = args.n_poses + (k - 1) * stride
            /\ \A w \in 1..k : \A o \in 1..args.n_poses :
                  (w = k \/ o <= stride) =>
                      /\ total[(w - 1) * stride + o] = emitted[w][o]
                      /\ (w = 1 \/ o > args.n_pre_poses) =>
                             emitted[w][o] = invocations[w].raw[o]
            /\ pc = "returned" =>
                  /\ k = Len(invocations)
                  /\ out_poses = total

C2_Witness ==
    /\ pc = "returned"
    /\ args = ScenarioArgs
    /\ Len(invocations) = 4
    /\ Len(out_poses) = 90

\* prev * (n - j) / (n + 1) + next * (j + 1) / (n + 1) over one denominator
CrossFade(prev, next, j, n) ==
    RDivInt(RAdd(RMulInt(prev, n - j), RMulInt(next, j + 1)), n + 1)

\* C3 as stated: for n_pre_poses <= n_poses, every window after the first and
\* every overlap index j, the seam frame is the cross-fade of the raw tail of
\* the previous window's predictor output with the window's raw output.
C3_BlendUsesRawTail ==
    args.n_pre_poses <= args.n_poses =>
        \A w \in 2..Len(emitted) : \A j \in 0..(args.n_pre_poses - 1) :
            emitted[w][j + 1] =
                CrossFade(LastN(invocations[w - 1].raw, args.n_pre_poses)[j + 1],
                          invocations[w].raw[j + 1], j, args.n_pre_poses)

\* C3, amended: the seam frame is the cross-fade of the tail of the previous
\* window's output as it stands in out_list (after that window's own
\* cross-fade) with the window's raw output; that tail is the raw tail when
\* the overlap is at most half a window.
C3_BlendUsesStoredTail ==
    args.n_pre_poses <= args.n_poses =>
        \A w \in 2..Len(emitted) : \A j \in 0..(args.n_pre_poses - 1) :
            /\ emitted[w][j + 1] =
                  CrossFade(LastN(emitted[w - 1], args.n_pre_poses)[j + 1],
                            invocations[w].raw[j + 1], j, args.n_pre_poses)
            /\ 2 * args.n_pre_poses <= args.n_poses =>
                  LastN(emitted[w - 1], args.n_pre_poses)[j + 1]
                      = LastN(invocations[w - 1].raw, args.n_pre_poses)[j + 1]

C3_Witness ==
    /\ Len(emitted) >= 3
    /\ args.n_pre_poses < args.n_poses
    /\ 2 * args.n_pre_poses > args.n_poses
    /\ LastN(emitted[2], args.n_pre_poses)[1] # LastN(invocations[2].raw, args.n_pre_poses)[1]

\* C4: every predictor invocation is seeded with exactly n_pre_poses frames:
\* the mean pose repeated for the first window (when no seed_seq is passed),
\* and the last n_pre_poses frames of the previous raw predictor output for
\* every later window.
C4_SeedIsRawTail ==
    \A k \in 1..Len(invocations) :
        /\ Len(invocations[k].pre_seq) = args.n_pre_poses
        /\ (k = 1 /\ seed_seq.is_none) =>
              invocations[k].pre_seq = [x \in 1..args.n_pre_poses |-> data_mean]
        /\ k > 1 =>
              invocations[k].pre_seq = LastN(invocations[k - 1].raw, args.n_pre_poses)

\* C5: a configuration with n_pre_poses > n_poses never reaches the predictor.
C5_RejectedBeforeFirstWindow ==
    args.n_pre_poses > args.n_poses => invocations = <<>>

\* the raw outputs of the first k invocations, one after the other
RawConcat(k) == Vstack([w \in 1..k |-> invocations[w].raw])

\* C6: with n_pre_poses = 0 the sequence built from k windows is the plain
\* concatenation of the k raw outputs, and every scheduled window gets there.
C6_PlainConcatenation ==
    args.n_pre_poses = 0 =>
        /\ error # "RuntimeError"
        /\ Vstack(out_list) = RawConcat(Len(emitted))

\* C7: once the predictor has failed, the run is over: the failing call is
\* the last one, nothing is returned, and no file is written.
C7_FailureAborts ==
    error = "PredictorError" =>
        /\ pc = "raised"
        /\ ~file_written
        /\ invocations[Len(invocations)].raw = <<>>
        /\ Len(emitted) = Len(invocations) - 1
        /\ \A k \in 1..(Len(invocations) - 1) : invocations[k].raw # <<>>

C7_Witness ==
    /\ error = "PredictorError"
    /\ Len(invocations) >= 3
    /\ out_list # <<>>

\* C8: a second call with the same arguments returns what the first returned.
C8_SecondRunSameOutput ==
    (run = 2 /\ pc = "returned") => out_poses = first_out

C8_Witness ==
    /\ run = 2
    /\ pc = "returned"
    /\ shares_memory
    /\ 1 <= args.n_pre_poses
    /\ args.n_pre_poses < args.n_poses
    /\ Len(invocations) >= 3
    /\ out_poses = first_out

\* C9: each predictor invocation gets [SOS, idx(w1), ..., idx(wk), EOS] for
\* the k words of its window, in order, and the length k + 2.
C9_EncodedWords ==
    \A n \in 1..Len(invocations) :
        LET inv == invocations[n]
            k   == Len(inv.word_seq)
        IN  /\ inv.in_text = <<SOS_token>>
                                \o [x \in 1..k |-> get_word_index(inv.word_seq[x][1])]
                                \o <<EOS_token>>
            /\ inv.words_lengths = k + 2

C9_Witness ==
    \E n \in 1..Len(invocations) :
        /\ Len(invocations[n].word_seq) >= 2
        /\ invocations[n].in_text[3] = UNK_token

\* C10: with 0 <= n_pre_poses < n_poses and at most 59 windows by the formula,
\* the first window starts at 0, each window starts no later than the one
\* before ends, the last window ends at or after clip_length and, when there
\* is more than one window, the one before the last ends before clip_length.
C10_WindowsCoverClip ==
    (/\ pc = "gg_preseq"
     /\ args.n_pre_poses < args.n_poses
     /\ uncapped <= 59) =>
        /\ i = 0 => start_time = FZero
        /\ i > 0 => FCmp(start_time, invocations[i].end_time) <= 0
        /\ i = num_subdivision - 1 => FCmp(end_time, clip_length) >= 0
        /\ i = num_subdivision - 2 => FCmp(end_time, clip_length) < 0

=============================================================================
